---- MODULE Spec2Model ----
(***************************************************************************)
(* QuickReceipt: the receipt-capture pipeline of the dashboard             *)
(* (src/app/dashboard/page.tsx) and the /api/scan route                    *)
(* (src/app/api/scan/route.ts).                                            *)
(*                                                                         *)
(* React state is modelled as the value the next render shows; a handler   *)
(* created by a render reads the state of that render (its closure), so    *)
(* every upload carries the savedReceipts snapshot its handler closed over.*)
(***************************************************************************)
EXTENDS Integers, Sequences, FiniteSets, TLC

\* ------------------------------------------------------------------ bounds
MaxUploads == 2
MaxClock == 1

Uploads == 1..MaxUploads

\* --------------------------------------------------------------- JSON text
\* A JSON object text is a token sequence: LBrace, one member token per key,
\* RBrace.  A member token is <<key, kind, lexeme>>, all strings: a string
\* value is written as kind "str", a number as kind "num" with its numeral.
LBrace == <<"{", "", "">>
RBrace == <<"}", "", "">>

\* Key order of a serialised object (insertion order of the object literals).
FieldOrder ==
    <<"merchantName", "date", "totalAmount", "category", "error", "id", "timestamp">>

NumericFields == {"totalAmount"}

Numerals == (0..20) \cup {250, 500}

IsNumeral(lex) == \E n \in Numerals : ToString(n) = lex

NumberOf(lex) == CHOOSE n \in Numerals : ToString(n) = lex

IsMember(tok) ==
    /\ tok[1] \in {FieldOrder[i] : i \in DOMAIN FieldOrder}
    /\ \/ tok[2] = "str"
       \/ tok[2] = "num" /\ IsNumeral(tok[3])

\* Does JSON.parse accept the text (as an object)?
IsJSON(text) ==
    /\ Len(text) >= 2
    /\ text[1] = LBrace
    /\ text[Len(text)] = RBrace
    /\ \A i \in 2..(Len(text) - 1) : IsMember(text[i])
    /\ \A i, j \in 2..(Len(text) - 1) : text[i][1] = text[j][1] => i = j

\* JSON.parse of an accepted text: the object, a function from its keys.
JSONParse(text) ==
    LET keys == {text[i][1] : i \in 2..(Len(text) - 1)}
        tokOf(k) == CHOOSE i \in 2..(Len(text) - 1) : text[i][1] = k
    IN  [k \in keys |->
            IF text[tokOf(k)][2] = "num" THEN NumberOf(text[tokOf(k)][3])
            ELSE text[tokOf(k)][3]]

RECURSIVE MembersFrom(_, _)
MembersFrom(obj, i) ==
    IF i > Len(FieldOrder) THEN <<>>
    ELSE LET k == FieldOrder[i]
         IN  (IF k \in DOMAIN obj
              THEN << IF k \in NumericFields
                      THEN <<k, "num", ToString(obj[k])>>
                      ELSE <<k, "str", obj[k]>> >>
              ELSE <<>>) \o MembersFrom(obj, i + 1)

\* JSON.stringify of an object.
JSONStringify(obj) == <<LBrace>> \o MembersFrom(obj, 1) \o <<RBrace>>

\* JSON.stringify / JSON.parse of an array of objects: the array text is the
\* sequence of its elements' texts.
StringifyArray(arr) == [i \in DOMAIN arr |-> JSONStringify(arr[i])]

IsJSONArray(items) == \A i \in DOMAIN items : IsJSON(items[i])

ParseArray(items) == [i \in DOMAIN items |-> JSONParse(items[i])]

\* ------------------------------------------------------------ /api/scan
\* What the vision service gives the route: the call throws, or it returns
\* a message content (a text).
EmptyContent == <<>>
NotJsonContent == << <<"not json", "", "">> >>

ReceiptA ==
    [merchantName |-> "A", date |-> "2024-01-01", totalAmount |-> 10, category |-> "Food"]
ReceiptB ==
    [merchantName |-> "B", date |-> "2024-01-03", totalAmount |-> 5, category |-> "Transport"]
PartialReceipt == [merchantName |-> "A"]

Contents ==
    {EmptyContent, NotJsonContent, JSONStringify(ReceiptA), JSONStringify(ReceiptB),
     JSONStringify(PartialReceipt)}

ServiceOutcomes ==
    {[throws |-> TRUE, content |-> EmptyContent]}
        \cup {[throws |-> FALSE, content |-> c] : c \in Contents}

\* NextResponse.json(value, {status})
JsonResponse(value, status) == [status |-> status, body |-> JSONStringify(value)]

\* POST with the parse failure answered without {status: 500}.
POST_ParseErrorStatusOk(hasImage, svc) ==
    IF ~hasImage THEN JsonResponse([error |-> "No image provided"], 400)
    ELSE IF svc.throws THEN JsonResponse([error |-> "Failed to process receipt"], 500)
    ELSE IF svc.content = EmptyContent
         THEN JsonResponse([error |-> "No response from AI"], 500)
    ELSE IF IsJSON(svc.content) THEN JsonResponse(JSONParse(svc.content), 200)
    ELSE JsonResponse([error |-> "Invalid JSON response from AI"], 200)

\* POST with the inner try/catch left out: a parse failure falls through to
\* the outer catch.
POST_NoInnerCatch(hasImage, svc) ==
    IF ~hasImage THEN JsonResponse([error |-> "No image provided"], 400)
    ELSE IF svc.throws THEN JsonResponse([error |-> "Failed to process receipt"], 500)
    ELSE IF svc.content = EmptyContent
         THEN JsonResponse([error |-> "No response from AI"], 500)
    ELSE IF IsJSON(svc.content) THEN JsonResponse(JSONParse(svc.content), 200)
    ELSE JsonResponse([error |-> "Failed to process receipt"], 500)

\* POST of the route: the response for a request with or without the image
\* part, given what the service call does.
POST(hasImage, svc) ==
    IF ~hasImage THEN JsonResponse([error |-> "No image provided"], 400)
    ELSE IF svc.throws THEN JsonResponse([error |-> "Failed to process receipt"], 500)
    ELSE IF svc.content = EmptyContent
         THEN JsonResponse([error |-> "No response from AI"], 500)
    ELSE IF IsJSON(svc.content) THEN JsonResponse(JSONParse(svc.content), 200)
    ELSE JsonResponse([error |-> "Invalid JSON response from AI"], 500)

\* Response.ok
ResponseOk(resp) == resp.status \in 200..299

\* ------------------------------------------------------------------ state
VARIABLES
    mounted,        \* has the load-on-mount effect run
    isLoading,      \* useState(false)
    error,          \* useState(null): NoError or the message
    receiptData,    \* useState(null): <<>> or <<data>>
    savedReceipts,  \* useState([]): the sequence of SavedReceipt
    storage,        \* localStorage 'quickReceipt_receipts'
    clock,          \* the latest reading of Date.now()
    uploads,        \* the calls of handleImageUpload
    cameras,        \* the calls of handleCameraCapture that have not ended
    pickerOpen,     \* the file input's dialog is open
    appendOrder,    \* the uploads whose auto-save ran, in the order it ran
    renderNow,      \* the reading of new Date() in the latest render
    view,           \* what the latest render computed: analytics and insights
    fault,          \* an exception no handler caught: "none" or where it rose
    workbook,       \* what the latest exportToExcel() came to
    canvas          \* the image given to optimizeImage and the canvas it drew

\* The render's, the export's and the canvas's part of the state.
viewVars == <<renderNow, view, fault, workbook, canvas>>

vars ==
    <<mounted, isLoading, error, receiptData, savedReceipts, storage, clock,
      uploads, cameras, pickerOpen, appendOrder, renderNow, view, fault, workbook,
      canvas>>

\* Nothing rendered yet.
NotRendered == [rendered |-> FALSE]

\* Nothing exported yet.
NoWorkbook == [status |-> "none"]

\* No image loaded yet.
NoCanvas == [drawn |-> FALSE, img |-> <<0, 0>>]

NoError == "null"
ScanFailedMessage == "Failed to scan receipt. Please try again."

AbsentKey == [present |-> FALSE, items |-> <<>>]
StoredValue(items) == [present |-> TRUE, items |-> items]

\* A record saved by an earlier session.
EarlierReceipt == [ReceiptB EXCEPT !.merchantName = "C"] @@ [id |-> "0", timestamp |-> "T0"]

InitialStorage == {AbsentKey, StoredValue(StringifyArray(<<EarlierReceipt>>))}

\* The vision service's outcome before the route has answered.
NoOutcome == [throws |-> FALSE, content |-> << <<"pending", "", "">> >>]

IdleUpload ==
    [pc |-> "idle", decodable |-> TRUE, snap |-> <<>>, svc |-> NoOutcome, fail |-> "none"]

Init ==
    /\ mounted = FALSE
    /\ isLoading = FALSE
    /\ error = NoError
    /\ receiptData = <<>>
    /\ savedReceipts = <<>>
    /\ storage \in InitialStorage
    /\ clock = 1
    /\ uploads = [p \in Uploads |-> IdleUpload]
    /\ cameras = <<>>
    /\ pickerOpen = FALSE
    /\ appendOrder = <<>>
    /\ renderNow = 0
    /\ view = NotRendered
    /\ fault = "none"
    /\ workbook = NoWorkbook
    /\ canvas = NoCanvas

\* A load without the `if (stored)` guard, failing when the key is absent.
Mount_NoAbsentGuard ==
    /\ ~mounted
    /\ fault = "none"
    /\ IF ~storage.present \/ ~IsJSONArray(storage.items)
       THEN /\ fault' = "load"
            /\ UNCHANGED <<mounted, savedReceipts>>
       ELSE /\ mounted' = TRUE
            /\ savedReceipts' = ParseArray(storage.items)
            /\ fault' = fault
    /\ UNCHANGED <<isLoading, error, receiptData, storage, clock, uploads, cameras,
                   pickerOpen, appendOrder, renderNow, view, workbook, canvas>>

\* useEffect(..., []): load the saved receipts on mount.  JSON.parse throws
\* on a stored text it cannot parse; nothing catches it.
Mount ==
    /\ ~mounted
    /\ fault = "none"
    /\ IF storage.present /\ ~IsJSONArray(storage.items)
       THEN /\ fault' = "load"
            /\ UNCHANGED <<mounted, savedReceipts>>
       ELSE /\ mounted' = TRUE
            /\ savedReceipts' =
                   IF storage.present THEN ParseArray(storage.items) ELSE savedReceipts
            /\ fault' = fault
    /\ UNCHANGED <<isLoading, error, receiptData, storage, clock, uploads, cameras,
                   pickerOpen, appendOrder, renderNow, view, workbook, canvas>>

\* ----------------------------------------------------- handleImageUpload
\* Lines 114-118: the record built from the extracted data.
NewReceipt(data, now) ==
    [k \in (DOMAIN data) \cup {"id", "timestamp"} |->
        IF k = "id" THEN ToString(now)
        ELSE IF k = "timestamp" THEN "T" \o ToString(now)
        ELSE data[k]]

\* Line 120 as a functional update, reading the current state instead of the
\* closure.
UpdatedReceipts_FromCurrent(closure, newReceipt) == Append(savedReceipts, newReceipt)

\* Line 120: [...savedReceipts, newReceipt], savedReceipts being the value
\* the handler closed over.
UpdatedReceipts(closure, newReceipt) == Append(closure, newReceipt)

\* The route's response to an upload's request.
ApiResponse(p) == POST(TRUE, uploads[p].svc)

Started == {p \in Uploads : uploads[p].pc # "idle"}

\* The upload that the next call of handleImageUpload becomes.
NextUpload == Cardinality(Started) + 1

\* Scans begun: uploads started, camera requests and modals, an open dialog.
ScansBegun == Cardinality(Started) + Len(cameras) + (IF pickerOpen THEN 1 ELSE 0)

\* Lines 86-91: setIsLoading(true); setError(null); await optimizeImage(file).
StartUpload(decodable, closure) ==
    /\ isLoading' = TRUE
    /\ error' = NoError
    /\ uploads' = [uploads EXCEPT ![NextUpload] =
                      [IdleUpload EXCEPT !.pc = "optimize", !.decodable = decodable,
                                         !.snap = closure]]

\* A catch block that only logs.
Catch_LogOnly == error' = error

\* Lines 126-128: catch.
Catch == error' = ScanFailedMessage

\* Lines 129-131: finally.
Finally == isLoading' = FALSE

\* An upload ends in the catch block.
CatchAndFinally(p, kind) ==
    /\ Catch
    /\ Finally
    /\ uploads' = [uploads EXCEPT ![p] = [IdleUpload EXCEPT !.pc = "failed", !.fail = kind,
                                                            !.svc = uploads[p].svc]]

\* optimizeImage, img.onload (lines 55-79), then lines 94-104: the promise
\* resolves with the data URL, which is read back as a blob and posted to
\* /api/scan; reading it back throws when blobOk is false.
ImgOnload(p, blobOk) ==
    /\ uploads[p].pc = "optimize"
    /\ uploads[p].decodable
    /\ IF blobOk
       THEN /\ uploads' = [uploads EXCEPT ![p].pc = "scan"]
            /\ UNCHANGED <<isLoading, error>>
       ELSE CatchAndFinally(p, "blob")
    /\ UNCHANGED viewVars
    /\ UNCHANGED <<mounted, receiptData, savedReceipts, storage, clock, cameras,
                   pickerOpen, appendOrder>>

\* optimizeImage: the image fires 'error'.  No onerror handler is set and the
\* promise has no reject path, so the promise stays pending.
ImgError(p) ==
    /\ uploads[p].pc = "optimize"
    /\ ~uploads[p].decodable
    /\ uploads' = [uploads EXCEPT ![p] = [IdleUpload EXCEPT !.pc = "stuck", !.fail = "decode"]]
    /\ UNCHANGED viewVars
    /\ UNCHANGED <<mounted, isLoading, error, receiptData, savedReceipts, storage,
                   clock, cameras, pickerOpen, appendOrder>>

\* Lines 101-110: the route's response arrives.
ScanResponds(p, svc) ==
    /\ uploads[p].pc = "scan"
    /\ IF ResponseOk(POST(TRUE, svc))
       THEN /\ uploads' = [uploads EXCEPT ![p].pc = "json", ![p].svc = svc]
            /\ UNCHANGED <<isLoading, error>>
       ELSE /\ Catch
            /\ Finally
            /\ uploads' = [uploads EXCEPT ![p] =
                              [IdleUpload EXCEPT !.pc = "failed", !.fail = "notok",
                                                 !.svc = svc]]
    /\ UNCHANGED viewVars
    /\ UNCHANGED <<mounted, receiptData, savedReceipts, storage, clock, cameras,
                   pickerOpen, appendOrder>>

\* Line 101: fetch('/api/scan') rejects (no response at all).
ScanRequestFails(p) ==
    /\ uploads[p].pc = "scan"
    /\ CatchAndFinally(p, "request")
    /\ UNCHANGED viewVars
    /\ UNCHANGED <<mounted, receiptData, savedReceipts, storage, clock, cameras,
                   pickerOpen, appendOrder>>

\* Line 110: apiResponse.json() rejects.
BodyFails(p) ==
    /\ uploads[p].pc = "json"
    /\ CatchAndFinally(p, "body")
    /\ UNCHANGED viewVars
    /\ UNCHANGED <<mounted, receiptData, savedReceipts, storage, clock, cameras,
                   pickerOpen, appendOrder>>

\* Lines 110-131: the body is parsed and the receipt is auto-saved at the
\* clock reading now; localStorage.setItem succeeds or throws (quota).
AutoSave(p, now, writeOk) ==
    /\ uploads[p].pc = "json"
    /\ IsJSON(ApiResponse(p).body)
    /\ now >= clock
    /\ clock' = now
    /\ LET data == JSONParse(ApiResponse(p).body)
           newReceipt == NewReceipt(data, now)
           updatedReceipts == UpdatedReceipts(uploads[p].snap, newReceipt)
       IN  /\ savedReceipts' = updatedReceipts
           /\ appendOrder' = Append(appendOrder, p)
           /\ Finally
           /\ IF writeOk
              THEN /\ storage' = StoredValue(StringifyArray(updatedReceipts))
                   /\ receiptData' = <<>>
                   /\ error' = error
                   /\ uploads' = [uploads EXCEPT ![p].pc = "done"]
              ELSE /\ storage' = storage
                   /\ receiptData' = <<data>>
                   /\ Catch
                   /\ uploads' = [uploads EXCEPT ![p].pc = "failed",
                                                 ![p].fail = "storage"]
    /\ UNCHANGED viewVars
    /\ UNCHANGED <<mounted, cameras, pickerOpen>>

\* ------------------------------------------------------- the entry points
\* 'Choose from Gallery' (lines 441-448): disabled while isLoading.
OpenGallery ==
    /\ mounted
    /\ ~isLoading
    /\ ~pickerOpen
    /\ ScansBegun < MaxUploads
    /\ pickerOpen' = TRUE
    /\ UNCHANGED viewVars
    /\ UNCHANGED <<mounted, isLoading, error, receiptData, savedReceipts, storage,
                   clock, uploads, cameras, appendOrder>>

\* handleFileSelect (lines 134-139): the handler of the latest render.
FileSelect(decodable) ==
    /\ pickerOpen
    /\ pickerOpen' = FALSE
    /\ StartUpload(decodable, savedReceipts)
    /\ UNCHANGED viewVars
    /\ UNCHANGED <<mounted, receiptData, savedReceipts, storage, clock, cameras,
                   appendOrder>>

\* The dialog is dismissed without a file.
PickerCancel ==
    /\ pickerOpen
    /\ pickerOpen' = FALSE
    /\ UNCHANGED viewVars
    /\ UNCHANGED <<mounted, isLoading, error, receiptData, savedReceipts, storage,
                   clock, uploads, cameras, appendOrder>>

\* 'Take Photo of Receipt' (lines 428-439, 141-146): disabled while isLoading;
\* handleCameraCapture awaits getUserMedia.
CameraClick ==
    /\ mounted
    /\ ~isLoading
    /\ ScansBegun < MaxUploads
    /\ cameras' = Append(cameras, [st |-> "asking", snap |-> savedReceipts])
    /\ UNCHANGED viewVars
    /\ UNCHANGED <<mounted, isLoading, error, receiptData, savedReceipts, storage,
                   clock, uploads, pickerOpen, appendOrder>>

RemoveAt(seq, i) == SubSeq(seq, 1, i - 1) \o SubSeq(seq, i + 1, Len(seq))

\* Lines 148-207: the camera is granted, the modal is shown.
CameraGranted(i) ==
    /\ i \in DOMAIN cameras
    /\ cameras[i].st = "asking"
    /\ cameras' = [cameras EXCEPT ![i].st = "modal"]
    /\ UNCHANGED viewVars
    /\ UNCHANGED <<mounted, isLoading, error, receiptData, savedReceipts, storage,
                   clock, uploads, pickerOpen, appendOrder>>

\* Lines 209-213: the camera is refused, the file input is clicked.
CameraDenied(i) ==
    /\ i \in DOMAIN cameras
    /\ cameras[i].st = "asking"
    /\ cameras' = RemoveAt(cameras, i)
    /\ pickerOpen' = TRUE
    /\ UNCHANGED viewVars
    /\ UNCHANGED <<mounted, isLoading, error, receiptData, savedReceipts, storage,
                   clock, uploads, appendOrder>>

\* Lines 185-202: Capture.  toBlob gives a blob (always a decodable JPEG) or
\* null; with a blob, handleImageUpload of the render that opened the modal.
Capture(i, gotBlob) ==
    /\ i \in DOMAIN cameras
    /\ cameras[i].st = "modal"
    /\ cameras' = RemoveAt(cameras, i)
    /\ IF gotBlob
       THEN StartUpload(TRUE, cameras[i].snap)
       ELSE UNCHANGED <<isLoading, error, uploads>>
    /\ UNCHANGED viewVars
    /\ UNCHANGED <<mounted, receiptData, savedReceipts, storage, clock, pickerOpen,
                   appendOrder>>

\* Lines 204-207: Cancel.
CameraCancel(i) ==
    /\ i \in DOMAIN cameras
    /\ cameras[i].st = "modal"
    /\ cameras' = RemoveAt(cameras, i)
    /\ UNCHANGED viewVars
    /\ UNCHANGED <<mounted, isLoading, error, receiptData, savedReceipts, storage,
                   clock, uploads, pickerOpen, appendOrder>>

Readings == 1..(1 + MaxClock)

Next ==
    \/ Mount
    \/ OpenGallery
    \/ \E d \in BOOLEAN : FileSelect(d)
    \/ PickerCancel
    \/ CameraClick
    \/ \E i \in Uploads : CameraGranted(i)
    \/ \E i \in Uploads : CameraDenied(i)
    \/ \E i \in Uploads, b \in BOOLEAN : Capture(i, b)
    \/ \E i \in Uploads : CameraCancel(i)
    \/ \E p \in Uploads, b \in BOOLEAN : ImgOnload(p, b)
    \/ \E p \in Uploads : ImgError(p)
    \/ \E p \in Uploads, svc \in ServiceOutcomes : ScanResponds(p, svc)
    \/ \E p \in Uploads : ScanRequestFails(p)
    \/ \E p \in Uploads : BodyFails(p)
    \/ \E p \in Uploads, now \in Readings, w \in BOOLEAN : AutoSave(p, now, w)

Spec == Init /\ [][Next]_vars

\* ------------------------------------------------------------ fairness
\* The steps of one upload.  The event loop runs every callback that is due.
UploadStep(p) ==
    \/ \E b \in BOOLEAN : ImgOnload(p, b)
    \/ ImgError(p)
    \/ \E svc \in ServiceOutcomes : ScanResponds(p, svc)
    \/ ScanRequestFails(p)
    \/ BodyFails(p)
    \/ \E now \in Readings, w \in BOOLEAN : AutoSave(p, now, w)

FairSpec == Spec /\ \A p \in Uploads : WF_vars(UploadStep(p))

\* ------------------------------------------------------------ properties
IsPrefix(s, t) == Len(s) <= Len(t) /\ SubSeq(t, 1, Len(s)) = s

\* listAll(): the persisted value read back.
StoredList == IF storage.present THEN ParseArray(storage.items) ELSE <<>>

Appended == {appendOrder[i] : i \in DOMAIN appendOrder}

RequiredFields == {"merchantName", "date", "totalAmount", "category"}

\* The extracted data of an upload whose response was a success.
DataOf(p) == JSONParse(ApiResponse(p).body)

Answered(p) == uploads[p].svc # NoOutcome

\* C1: the store is append-only: every write to savedReceipts and to the
\* persisted value keeps the previous sequence as a prefix.
C1_AppendOnly ==
    [][/\ IsPrefix(savedReceipts, savedReceipts')
       /\ IsPrefix(StoredList, StoredList')]_vars

\* C2: any two distinct records in the store have different ids.
C2_UniqueIds ==
    /\ \A i, j \in DOMAIN savedReceipts :
           i # j => savedReceipts[i].id # savedReceipts[j].id
    /\ \A i, j \in DOMAIN StoredList :
           i # j => StoredList[i].id # StoredList[j].id

\* The three extraction failures of the claim.
FailureKind(svc) ==
    IF svc.throws THEN "service"
    ELSE IF svc.content = EmptyContent THEN "empty"
    ELSE IF ~IsJSON(svc.content) THEN "parse"
    ELSE "none"

\* The service gave no parseable content, or the route's response is not a
\* success.
ExtractionFailed(p) ==
    FailureKind(uploads[p].svc) # "none" \/ ~ResponseOk(ApiResponse(p))

\* C3: when the service's content is not parseable as JSON, or the request
\* otherwise ends with a non-success response, the upload ends failed with
\* the error message, never appends, and the step in which it ends leaves
\* savedReceipts and the persisted value as they were.
C3_FailedExtractionAppendsNothing ==
    /\ [](\A p \in Uploads :
            (Answered(p) /\ ExtractionFailed(p))
                => (uploads[p].pc = "failed" /\ p \notin Appended))
    /\ [][\A p \in Uploads :
            (~Answered(p) /\ Answered(p)' /\ ExtractionFailed(p)')
                => /\ uploads'[p].pc = "failed"
                   /\ error' = ScanFailedMessage
                   /\ savedReceipts' = savedReceipts
                   /\ storage' = storage]_vars

C3_Witness ==
    \E p \in Uploads :
        /\ uploads[p].pc = "failed"
        /\ uploads[p].svc = [throws |-> FALSE, content |-> NotJsonContent]
        /\ error = ScanFailedMessage
        /\ p \notin Appended

\* C4: a response that is valid JSON but lacks a required field is treated
\* as a parse failure: the upload does not succeed and appends no record.
C4_MissingFieldsRejected ==
    \A p \in Uploads :
        (/\ Answered(p)
         /\ ~uploads[p].svc.throws
         /\ IsJSON(uploads[p].svc.content)
         /\ ~(RequiredFields \subseteq DOMAIN JSONParse(uploads[p].svc.content)))
            => (uploads[p].pc # "done" /\ p \notin Appended)

\* C5: after an upload whose extraction and storage write both succeed, the
\* persisted value read back is exactly one element longer than before, its
\* last element is the extracted fields plus the generated id and timestamp,
\* and its earlier elements are the previous store contents in order.
C5_RoundTrip ==
    [][\A p \in Uploads :
          (uploads[p].pc = "json" /\ uploads'[p].pc = "done")
              => /\ Len(StoredList') = Len(StoredList) + 1
                 /\ SubSeq(StoredList', 1, Len(StoredList)) = StoredList
                 /\ StoredList'[Len(StoredList')] = NewReceipt(DataOf(p), clock')]_vars

\* C6: racing appends are last-write-wins without a partial write: when an
\* upload's auto-save runs after the auto-save of another upload started
\* from the same savedReceipts snapshot S, savedReceipts becomes S followed
\* by the later upload's record; the persisted value becomes the well-formed
\* text of the same sequence, or stays as it was when the write throws.
C6_LastWriteWins ==
    [][\A q \in Uploads :
          (/\ appendOrder' = Append(appendOrder, q)
           /\ \E p \in Appended : uploads[p].snap = uploads[q].snap)
              => /\ savedReceipts' =
                        uploads[q].snap \o <<NewReceipt(DataOf(q), clock')>>
                 /\ IF uploads'[q].pc = "done"
                    THEN /\ storage'.present
                         /\ IsJSONArray(storage'.items)
                         /\ ParseArray(storage'.items) = savedReceipts'
                    ELSE storage' = storage]_vars

C6_Witness ==
    /\ Len(appendOrder) = 2
    /\ appendOrder[1] # appendOrder[2]
    /\ uploads[appendOrder[1]].pc = "done"
    /\ uploads[appendOrder[2]].pc = "done"
    /\ uploads[appendOrder[1]].snap = uploads[appendOrder[2]].snap
    /\ DataOf(appendOrder[1]) # DataOf(appendOrder[2])
    /\ Len(savedReceipts) = Len(uploads[appendOrder[2]].snap) + 1
    /\ StoredList = savedReceipts

\* C7: every failure inside an upload is caught at the upload boundary: in
\* the step in which the failure happens the upload ends failed with the
\* error message set and isLoading false.
C7_EveryFailureCaught ==
    [][\A p \in Uploads :
          (uploads[p].fail = "none" /\ uploads'[p].fail # "none")
              => /\ uploads'[p].pc = "failed"
                 /\ error' = ScanFailedMessage
                 /\ isLoading' = FALSE]_vars

\* C8: an upload whose image cannot be decoded eventually ends in the failed
\* state.
C8_DecodeFailureTerminates ==
    \A p \in Uploads :
        (uploads[p].pc = "optimize" /\ ~uploads[p].decodable)
            ~> (uploads[p].pc = "failed")

\* C9: a failed service call, an empty content and an unparseable content
\* reach the route's caller as three different responses.
C9_DistinctFailureKinds ==
    \A p, q \in Uploads :
        (/\ uploads[p].fail = "notok"
         /\ uploads[q].fail = "notok"
         /\ FailureKind(uploads[p].svc) # FailureKind(uploads[q].svc))
            => /\ ApiResponse(p) # ApiResponse(q)
               /\ ApiResponse(p).body # ApiResponse(q).body

C9_Witness ==
    \E p, q \in Uploads :
        /\ uploads[p].fail = "notok"
        /\ uploads[q].fail = "notok"
        /\ FailureKind(uploads[p].svc) = "empty"
        /\ FailureKind(uploads[q].svc) = "parse"

\* C10: when extraction succeeds and the storage write fails, the step that
\* ends the upload puts the new record at the end of savedReceipts, leaves the
\* persisted value unchanged and sets the error message.
C10_FailedWriteKeepsMemory ==
    [][\A p \in Uploads :
          (uploads[p].pc = "json" /\ uploads'[p].fail = "storage")
              => /\ savedReceipts' # <<>>
                 /\ savedReceipts'[Len(savedReceipts')] = NewReceipt(DataOf(p), clock')
                 /\ storage' = storage
                 /\ error' = ScanFailedMessage
                 /\ uploads'[p].pc = "failed"]_vars

C10_Witness ==
    \E p \in Uploads :
        /\ uploads[p].fail = "storage"
        /\ uploads[p].pc = "failed"
        /\ StoredList # savedReceipts
        /\ Len(savedReceipts) = Len(StoredList) + 1
        /\ error = ScanFailedMessage

\* ================================================= analytics and insights
\* ------------------------------------------------------------------ bounds
MaxRecords == 3

\* ------------------------------------------------------------ new Date(text)
\* Time is counted in half days since the epoch.
TicksPerDay == 2

\* The date texts of the model as <<text, year, month, day>>; new Date() of
\* any other text is an Invalid Date.
KnownDates ==
    {<<"2024-01-03", 2024, 1, 3>>, <<"2024-01-02", 2024, 1, 2>>,
     <<"2024-01-01", 2024, 1, 1>>, <<"2023-12-27", 2023, 12, 27>>,
     <<"2023-12-04", 2023, 12, 4>>, <<"2023-01-03", 2023, 1, 3>>,
     <<"2023-01-02", 2023, 1, 2>>}

\* Days since 1970-01-01 of a civil date.
DaysFromCivil(y, m, d) ==
    LET yy == IF m <= 2 THEN y - 1 ELSE y
        era == yy \div 400
        yoe == yy - era * 400
        mp == IF m > 2 THEN m - 3 ELSE m + 9
        doy == (153 * mp + 2) \div 5 + d - 1
        doe == yoe * 365 + yoe \div 4 - yoe \div 100 + doy
    IN  era * 146097 + doe - 719468

\* new Date(text) is a valid date.
IsDate(text) == \E k \in KnownDates : k[1] = text

\* new Date(text).getTime() of a valid date: midnight UTC of the day.
DateParse(text) ==
    LET k == CHOOSE k \in KnownDates : k[1] = text
    IN  DaysFromCivil(k[2], k[3], k[4]) * TicksPerDay

\* ------------------------------------------------------- calculateAnalytics
WeekDays == 7
MonthDays == 30
YearDays == 365

\* A filter that leaves the boundary instant out.
InWindow_After(r, boundary) == IsDate(r.date) /\ DateParse(r.date) > boundary

\* A filter with the comparison negated: an Invalid Date passes it.
InWindow_NotBefore(r, boundary) == ~(IsDate(r.date) /\ DateParse(r.date) < boundary)

\* r.date, undefined on a record saved without it; new Date(undefined) is an
\* Invalid Date.
DateOf(r) == IF "date" \in DOMAIN r THEN r.date ELSE "undefined"

\* Lines 228, 232, 236: new Date(r.date) >= boundary; false for an Invalid
\* Date (NaN).
InWindow(r, boundary) == IsDate(DateOf(r)) /\ DateParse(DateOf(r)) >= boundary

RECURSIVE WindowSumFrom(_, _, _)
WindowSumFrom(receipts, boundary, i) ==
    IF i > Len(receipts) THEN 0
    ELSE (IF InWindow(receipts[i], boundary) THEN receipts[i].totalAmount ELSE 0)
             + WindowSumFrom(receipts, boundary, i + 1)

\* Lines 227-237: filter(...).reduce((sum, r) => sum + r.totalAmount, 0).
WindowSum(receipts, boundary) == WindowSumFrom(receipts, boundary, 1)

\* The boundary of the monthly window taken with the week's length.
OneMonthAgo_Short(t) == t - 3 * TicksPerDay

\* Lines 223-225.
OneWeekAgo(t) == t - WeekDays * TicksPerDay
OneMonthAgo(t) == t - MonthDays * TicksPerDay
OneYearAgo(t) == t - YearDays * TicksPerDay

\* The values of a Record<string, number> at run time: a number, or the
\* string that + gives when an operand is not a number.
Num(n) == [t |-> "number", n |-> n]
StringValue == [t |-> "string", n |-> 0]
Undefined == [t |-> "undefined", n |-> 0]
InheritedFunction == [t |-> "function", n |-> 0]
NotANumber == [t |-> "NaN", n |-> 0]

\* Function-valued properties every {} inherits from Object.prototype.
ObjectPrototypeKeys == {"constructor", "toString", "valueOf", "hasOwnProperty"}

\* An object literal is the sequence of its own entries in insertion order.
HasOwn(acc, k) == \E i \in DOMAIN acc : acc[i].k = k

\* acc[k]: the own property, else the inherited one, else undefined.
Get(acc, k) ==
    IF HasOwn(acc, k) THEN acc[CHOOSE i \in DOMAIN acc : acc[i].k = k].v
    ELSE IF k \in ObjectPrototypeKeys THEN InheritedFunction
    ELSE Undefined

\* acc[k] = v
Put(acc, k, v) ==
    IF HasOwn(acc, k)
    THEN [i \in DOMAIN acc |-> IF acc[i].k = k THEN [k |-> k, v |-> v] ELSE acc[i]]
    ELSE Append(acc, [k |-> k, v |-> v])

\* (value || 0) + x for a number x; undefined and NaN are falsy.
OrZeroPlus(value, x) ==
    IF value.t = "number" THEN Num(value.n + x)
    ELSE IF value.t \in {"undefined", "NaN"} THEN Num(x)
    ELSE StringValue

\* The property key a record's field gives: String(undefined) when the
\* record was saved without the field.
KeyOf(r, field) == IF field \in DOMAIN r THEN r[field] ELSE "undefined"

\* (value || 0) + r.totalAmount; a number plus undefined is NaN.
OrZeroPlusAmount(value, r) ==
    IF "totalAmount" \in DOMAIN r THEN OrZeroPlus(value, r.totalAmount)
    ELSE IF value.t \in {"number", "undefined", "NaN"} THEN NotANumber
    ELSE StringValue

RECURSIVE CategoryTotalsFrom(_, _, _)
CategoryTotalsFrom(receipts, acc, i) ==
    IF i > Len(receipts) THEN acc
    ELSE CategoryTotalsFrom(
             receipts,
             Put(acc, KeyOf(receipts[i], "category"),
                 OrZeroPlusAmount(Get(acc, KeyOf(receipts[i], "category")), receipts[i])),
             i + 1)

\* Lines 240-243.
CategoryTotals(receipts) == CategoryTotalsFrom(receipts, <<>>, 1)

RECURSIVE MerchantCountsFrom(_, _, _)
MerchantCountsFrom(receipts, acc, i) ==
    IF i > Len(receipts) THEN acc
    ELSE MerchantCountsFrom(
             receipts,
             Put(acc, KeyOf(receipts[i], "merchantName"),
                 OrZeroPlus(Get(acc, KeyOf(receipts[i], "merchantName")), 1)),
             i + 1)

\* Lines 246-249.
MerchantCounts(receipts) == MerchantCountsFrom(receipts, <<>>, 1)

\* Lines 221-252, with the savedReceipts and the new Date() it reads.
calculateAnalytics(receipts, t) ==
    [weekly |-> WindowSum(receipts, OneWeekAgo(t)),
     monthly |-> WindowSum(receipts, OneMonthAgo(t)),
     yearly |-> WindowSum(receipts, OneYearAgo(t)),
     categoryTotals |-> CategoryTotals(receipts),
     merchantCounts |-> MerchantCounts(receipts)]

\* ------------------------------------------------------- the insights tab
BudgetThreshold == 500
NoCategory == "N/A"

\* Line 649 and 694: Object.keys(obj)[0], undefined on an empty object.  (No
\* key of the model is an integer index, so key order is insertion order.)
FirstKey(obj) == IF Len(obj) = 0 THEN <<>> ELSE <<obj[1].k>>

\* Line 649: Object.keys(analytics.categoryTotals)[0] || 'N/A'.
TopCategory(categoryTotals) ==
    IF FirstKey(categoryTotals) = <<>> \/ FirstKey(categoryTotals) = <<"">>
    THEN NoCategory
    ELSE FirstKey(categoryTotals)[1]

\* Line 652: Object.values(analytics.categoryTotals)[0], undefined on an
\* empty object.
TopCategoryTotal(categoryTotals) ==
    IF Len(categoryTotals) = 0 THEN Undefined ELSE categoryTotals[1].v

\* Line 652: value?.toFixed(2) throws a TypeError on a value that is neither
\* undefined nor a number (NaN is a number).
ToFixedThrows(value) == value.t \notin {"undefined", "number", "NaN"}

RECURSIVE TotalFrom(_, _)
TotalFrom(receipts, i) ==
    IF i > Len(receipts) THEN 0 ELSE receipts[i].totalAmount + TotalFrom(receipts, i + 1)

\* Lines 661 and 672: savedReceipts.reduce((sum, r) => sum + r.totalAmount, 0).
Total(receipts) == TotalFrom(receipts, 1)

\* Lines 660-663: the average purchase as shown, in hundredths:
\* (sum / length).toFixed(2), or '0.00' for no receipts.
AveragePurchase(receipts) ==
    IF Len(receipts) > 0
    THEN (200 * Total(receipts) + Len(receipts)) \div (2 * Len(receipts))
    ELSE 0

\* A frequency that drops the fraction instead of rounding.
ShoppingFrequency_Truncated(receipts, monthly) ==
    IF monthly > 0
    THEN IF Len(receipts) = 0 \/ Total(receipts) = 0
         THEN monthly
         ELSE (monthly * Len(receipts)) \div Total(receipts)
    ELSE 0

\* Line 672: Math.round(monthly / (sum / length || 1)) when monthly > 0, else
\* 0.  sum / length is NaN for no receipts and 0 for a zero sum; both are
\* falsy, so the divisor is then 1.  Math.round rounds a half up.
ShoppingFrequency(receipts, monthly) ==
    IF monthly > 0
    THEN IF Len(receipts) = 0 \/ Total(receipts) = 0
         THEN monthly
         ELSE (2 * monthly * Len(receipts) + Total(receipts)) \div (2 * Total(receipts))
    ELSE 0

\* An alert that fires from the threshold on.
BudgetAlert_AtThreshold(monthly) == monthly >= BudgetThreshold

\* Line 691: analytics.monthly > 500.
BudgetAlert(monthly) == monthly > BudgetThreshold

\* Line 314 and the insights tab (lines 640-710): what a render computes from
\* savedReceipts and the new Date() it reads.
RenderView(receipts, t) ==
    LET analytics == calculateAnalytics(receipts, t)
    IN  [rendered |-> TRUE,
         receipts |-> receipts,
         analytics |-> analytics,
         topCategory |-> TopCategory(analytics.categoryTotals),
         topCategoryTotal |-> TopCategoryTotal(analytics.categoryTotals),
         averagePurchase |-> AveragePurchase(receipts),
         frequency |-> ShoppingFrequency(receipts, analytics.monthly),
         budgetAlert |-> BudgetAlert(analytics.monthly)]

\* ------------------------------------------------- the records of the view
\* Receipts as /api/scan extracted them, before id and timestamp are added.
Extracted(merchantName, date, totalAmount, category) ==
    [merchantName |-> merchantName, date |-> date, totalAmount |-> totalAmount,
     category |-> category]

RecordPool ==
    {ReceiptA, ReceiptB,
     Extracted("A", "2024-01-02", 20, "Food"),
     Extracted("B", "2023-12-27", 10, "Transport"),
     Extracted("C", "2023-12-04", 250, "Food"),
     Extracted("C", "2023-01-03", 250, "Home"),
     Extracted("constructor", "2023-01-02", 5, "Food"),
     Extracted("B", "not a date", 20, "Transport"),
     Extracted("A", "2024-01-02", 500, "Food"),
     Extracted("A", "2024-01-03", 10, "constructor"),
     Extracted("A", "2024-01-03", 0, "Food")}

\* The sequences of at most n pool receipts.
RECURSIVE SeqsUpTo(_)
SeqsUpTo(n) ==
    IF n = 0 THEN {<<>>}
    ELSE SeqsUpTo(n - 1)
             \cup {Append(q, r) : q \in {q \in SeqsUpTo(n - 1) : Len(q) = n - 1},
                                  r \in RecordPool}

\* Lines 114-118 for the i-th receipt of a stored list.
Saved(extracted) == [i \in DOMAIN extracted |-> NewReceipt(extracted[i], i)]

\* What earlier sessions can have left under the key: nothing, a text that
\* is not JSON, or a saved list.
ViewStorage ==
    {AbsentKey, StoredValue(<<NotJsonContent>>)}
        \cup {StoredValue(StringifyArray(Saved(q))) : q \in SeqsUpTo(MaxRecords)}

\* The readings of new Date(): 2024-01-03 at 00:00 and at 12:00.
Today == DaysFromCivil(2024, 1, 3)
RenderTimes == {Today * TicksPerDay, Today * TicksPerDay + 1}

\* ------------------------------------------------------------------ render
\* A render of the dashboard: line 314 and the insights tab.
Render(t) ==
    /\ fault = "none"
    /\ renderNow' = t
    /\ view' = RenderView(savedReceipts, t)
    /\ fault' = IF ToFixedThrows(view'.topCategoryTotal) THEN "render" ELSE fault
    /\ UNCHANGED <<mounted, isLoading, error, receiptData, savedReceipts, storage, clock,
                   uploads, cameras, pickerOpen, appendOrder, workbook, canvas>>

\* The dashboard opened on what earlier sessions left, with no scan running.
ViewInit ==
    /\ mounted = FALSE
    /\ isLoading = FALSE
    /\ error = NoError
    /\ receiptData = <<>>
    /\ savedReceipts = <<>>
    /\ storage \in ViewStorage
    /\ clock = 1
    /\ uploads = [p \in Uploads |-> IdleUpload]
    /\ cameras = <<>>
    /\ pickerOpen = FALSE
    /\ appendOrder = <<>>
    /\ renderNow = 0
    /\ view = NotRendered
    /\ fault = "none"
    /\ workbook = NoWorkbook
    /\ canvas = NoCanvas

ViewNext ==
    \/ Mount
    \/ \E t \in RenderTimes : Render(t)

ViewSpec == ViewInit /\ [][ViewNext]_vars

\* ------------------------------------------------------------ exportToExcel
\* Lines 262-267: the rows of the 'Receipts' sheet.
ReceiptsData(receipts) ==
    [i \in DOMAIN receipts |->
        [Date |-> receipts[i].date, Merchant |-> receipts[i].merchantName,
         Category |-> receipts[i].category, Amount |-> receipts[i].totalAmount]]

\* Lines 272-276: the rows of the 'Analytics' sheet.
AnalyticsData(analytics) ==
    <<[Period |-> "Weekly", Total |-> analytics.weekly],
      [Period |-> "Monthly", Total |-> analytics.monthly],
      [Period |-> "Yearly", Total |-> analytics.yearly]>>

\* Line 282: is the identifier `Category` of the shorthand property bound in
\* the callback's scope?  The callback's parameters are `category` and
\* `total`, and nothing else declares it.
ShorthandInScope == "Category" \in {"category", "total"}

\* Lines 281-284: the rows of the 'Categories' sheet.  The callback runs once
\* per entry; evaluating an unbound identifier throws a ReferenceError.
CategoriesData(categoryTotals) ==
    [throws |-> Len(categoryTotals) > 0 /\ ~ShorthandInScope,
     rows |-> [i \in DOMAIN categoryTotals |->
                  [Category |-> categoryTotals[i].k, Total |-> categoryTotals[i].v]]]

\* The handler threw before XLSX.writeFile: no file.
ExportFailed == [status |-> "failed"]

\* Lines 255-290: the workbook written, or the failure.
ExportResult(receipts, t) ==
    LET analytics == calculateAnalytics(receipts, t)
        categoriesData == CategoriesData(analytics.categoryTotals)
    IN  IF categoriesData.throws THEN ExportFailed
        ELSE [status |-> "written",
              Receipts |-> ReceiptsData(receipts),
              Analytics |-> AnalyticsData(analytics),
              Categories |-> categoriesData.rows]

\* An export wrapped like the upload handler: it resets the loading flag and
\* the error message.
Export_ResetsFlags(t) ==
    /\ fault = "none"
    /\ workbook' = ExportResult(savedReceipts, t)
    /\ isLoading' = FALSE
    /\ error' = NoError
    /\ UNCHANGED <<mounted, receiptData, savedReceipts, storage, clock,
                   uploads, cameras, pickerOpen, appendOrder, renderNow, view, fault,
                   canvas>>

\* Line 513: onClick={exportToExcel}, reading new Date() as t.  An exception
\* of an event handler is reported and the component stays mounted.
Export(t) ==
    /\ fault = "none"
    /\ workbook' = ExportResult(savedReceipts, t)
    /\ UNCHANGED <<mounted, isLoading, error, receiptData, savedReceipts, storage, clock,
                   uploads, cameras, pickerOpen, appendOrder, renderNow, view, fault,
                   canvas>>

\* The dashboard opened on what earlier sessions left, and exports.
ExportNext ==
    \/ Mount
    \/ \E t \in RenderTimes : Export(t)

ExportSpec == ViewInit /\ [][ExportNext]_vars

\* A session of scans from the gallery, with exports at any point.
SessionNext ==
    \/ Mount
    \/ OpenGallery
    \/ \E d \in BOOLEAN : FileSelect(d)
    \/ PickerCancel
    \/ \E p \in Uploads : UploadStep(p)
    \/ \E t \in RenderTimes : Export(t)

SessionSpec == Init /\ [][SessionNext]_vars

\* ------------------------------------------------------------ optimizeImage
maxSize == 1200

\* The widths and heights of the images of the model.
Edges == {1, 2, 599, 600, 900, 1199, 1200, 1201, 1800, 2400, 3600, 4000}

\* canvas.width = value: the canvas keeps the integer part of the number.
ToLength(numerator, denominator) == numerator \div denominator

\* A resize that handles only images wider than tall.
Resized_LandscapeOnly(width, height) ==
    IF width > height /\ width > maxSize
    THEN <<maxSize, ToLength(height * maxSize, width)>>
    ELSE <<width, height>>

\* Lines 57-75: the canvas size for an image of the given size.
Resized(width, height) ==
    IF width > height
    THEN IF width > maxSize
         THEN <<maxSize, ToLength(height * maxSize, width)>>
         ELSE <<width, height>>
    ELSE IF height > maxSize
         THEN <<ToLength(width * maxSize, height), maxSize>>
         ELSE <<width, height>>

\* Lines 55-79: img.onload of an image of the canvas's input size.
DrawImage ==
    /\ ~canvas.drawn
    /\ canvas' = [drawn |-> TRUE, img |-> canvas.img,
                  width |-> Resized(canvas.img[1], canvas.img[2])[1],
                  height |-> Resized(canvas.img[1], canvas.img[2])[2]]
    /\ UNCHANGED <<mounted, isLoading, error, receiptData, savedReceipts, storage, clock,
                   uploads, cameras, pickerOpen, appendOrder, renderNow, view, fault,
                   workbook>>

\* optimizeImage is given an image of some size.
ImageInit ==
    /\ mounted = FALSE
    /\ isLoading = FALSE
    /\ error = NoError
    /\ receiptData = <<>>
    /\ savedReceipts = <<>>
    /\ storage = AbsentKey
    /\ clock = 1
    /\ uploads = [p \in Uploads |-> IdleUpload]
    /\ cameras = <<>>
    /\ pickerOpen = FALSE
    /\ appendOrder = <<>>
    /\ renderNow = 0
    /\ view = NotRendered
    /\ fault = "none"
    /\ workbook = NoWorkbook
    /\ canvas \in {[drawn |-> FALSE, img |-> <<w, h>>] : w \in Edges, h \in Edges}

ImageNext == DrawImage

ImageSpec == ImageInit /\ [][ImageNext]_vars

\* ================================================================ claims
\* C11: loading the store when the key is absent yields the empty sequence
\* and raises no error, and savedReceipts stays empty until the first
\* append: while the key is absent no exception has escaped, and once the
\* load has run and no auto-save has, savedReceipts is empty.
C11_AbsentKeyLoadsEmpty ==
    ~storage.present =>
        /\ fault = "none"
        /\ (mounted /\ appendOrder = <<>>) => savedReceipts = <<>>

\* The load ran on an absent key, a scan has since failed, and the list is
\* still empty.
C11_Witness ==
    /\ mounted
    /\ ~storage.present
    /\ savedReceipts = <<>>
    /\ \E p \in Uploads : uploads[p].pc = "failed"

\* The receipts at the given indices add up to this amount.
RECURSIVE SumAmounts(_, _)
SumAmounts(receipts, I) ==
    IF I = {} THEN 0
    ELSE LET i == CHOOSE i \in I : TRUE
         IN  receipts[i].totalAmount + SumAmounts(receipts, I \ {i})

\* The receipts dated at or after t minus the given number of days.
DatedWithin(receipts, t, days) ==
    {i \in DOMAIN receipts :
        \E k \in KnownDates :
            /\ k[1] = receipts[i].date
            /\ (DaysFromCivil(k[2], k[3], k[4]) + days) * TicksPerDay >= t}

\* C12: weekly, monthly and yearly are the sums of totalAmount over exactly
\* the records dated at or after now minus 7, 30 and 365 days; a record dated
\* on the boundary instant is in the window.
C12_WindowSums ==
    view.rendered =>
        /\ view.analytics.weekly = SumAmounts(view.receipts, DatedWithin(view.receipts, renderNow, 7))
        /\ view.analytics.monthly = SumAmounts(view.receipts, DatedWithin(view.receipts, renderNow, 30))
        /\ view.analytics.yearly = SumAmounts(view.receipts, DatedWithin(view.receipts, renderNow, 365))

\* A receipt dated exactly seven days before the render's instant is counted
\* in the weekly sum.
C12_Witness ==
    /\ view.rendered
    /\ renderNow = Today * TicksPerDay
    /\ Len(view.receipts) = 1
    /\ view.receipts[1].date = "2023-12-27"
    /\ view.analytics.weekly = 10

\* C13: for non-negative amounts, weekly <= monthly <= yearly.
C13_WindowsNested ==
    (view.rendered /\ \A i \in DOMAIN view.receipts : view.receipts[i].totalAmount >= 0) =>
        /\ view.analytics.weekly <= view.analytics.monthly
        /\ view.analytics.monthly <= view.analytics.yearly

\* A render whose three windows hold different sums.
C13_Witness ==
    /\ view.rendered
    /\ 0 < view.analytics.weekly
    /\ view.analytics.weekly < view.analytics.monthly
    /\ view.analytics.monthly < view.analytics.yearly

\* C14: a record whose date cannot be parsed is in none of the windowed sums
\* and does not make calculateAnalytics fail: the sums are those of the
\* sequence without that record.
C14_UnparsableDateExcluded ==
    view.rendered =>
        \A i \in DOMAIN view.receipts :
            ~IsDate(view.receipts[i].date) =>
                LET without == calculateAnalytics(RemoveAt(view.receipts, i), renderNow)
                IN  /\ view.analytics.weekly = without.weekly
                    /\ view.analytics.monthly = without.monthly
                    /\ view.analytics.yearly = without.yearly

\* A render of a list that holds a record with an unparsable date between
\* two dated ones.
C14_Witness ==
    /\ view.rendered
    /\ Len(view.receipts) = 3
    /\ ~IsDate(view.receipts[2].date)
    /\ view.analytics.weekly > 0
    /\ view.analytics.yearly = view.receipts[1].totalAmount + view.receipts[3].totalAmount

\* The categories and merchant names of a list, and what the records of one
\* add up to.
CategoriesOf(receipts) == {receipts[i].category : i \in DOMAIN receipts}
MerchantsOf(receipts) == {receipts[i].merchantName : i \in DOMAIN receipts}
WithCategory(receipts, c) == {i \in DOMAIN receipts : receipts[i].category = c}
WithMerchant(receipts, m) == {i \in DOMAIN receipts : receipts[i].merchantName = m}
CategorySum(receipts, c) == SumAmounts(receipts, WithCategory(receipts, c))
FirstSeen(receipts, c) == CHOOSE i \in WithCategory(receipts, c) :
                              \A j \in WithCategory(receipts, c) : i <= j

\* C15: the top spending category shown is a category with the highest
\* total, the first-seen one among ties, and it is the sentinel exactly when
\* there are no records.
C15_TopCategoryIsHighest ==
    view.rendered =>
        /\ (view.topCategory = NoCategory) <=> (view.receipts = <<>>)
        /\ view.receipts # <<>> =>
               /\ view.topCategory \in CategoriesOf(view.receipts)
               /\ \A c \in CategoriesOf(view.receipts) :
                      /\ CategorySum(view.receipts, c)
                             <= CategorySum(view.receipts, view.topCategory)
                      /\ FirstSeen(view.receipts, c)
                             < FirstSeen(view.receipts, view.topCategory)
                         => CategorySum(view.receipts, c)
                                < CategorySum(view.receipts, view.topCategory)

\* C16: categoryTotals maps each category that occurs, and no other key, to
\* the sum of totalAmount over the records with that category.
C16_CategoryTotals ==
    view.rendered =>
        LET totals == view.analytics.categoryTotals
        IN  /\ {totals[i].k : i \in DOMAIN totals} = CategoriesOf(view.receipts)
            /\ \A i, j \in DOMAIN totals : totals[i].k = totals[j].k => i = j
            /\ \A i \in DOMAIN totals :
                   totals[i].v = Num(CategorySum(view.receipts, totals[i].k))

\* C17: merchantCounts maps each merchantName that occurs, and no other key,
\* to the number of records with that name.
C17_MerchantCounts ==
    view.rendered =>
        LET counts == view.analytics.merchantCounts
        IN  /\ {counts[i].k : i \in DOMAIN counts} = MerchantsOf(view.receipts)
            /\ \A i, j \in DOMAIN counts : counts[i].k = counts[j].k => i = j
            /\ \A i \in DOMAIN counts :
                   counts[i].v = Num(Cardinality(WithMerchant(view.receipts, counts[i].k)))

\* C18: the average purchase is the sum of all amounts divided by the record
\* count (shown to the nearest hundredth) and 0 for no records; the frequency
\* is monthly / average rounded to the nearest integer when the average is
\* positive and 0 otherwise; an empty list gives zero sums, empty mappings
\* and frequency 0.
C18_AverageAndFrequency ==
    view.rendered =>
        LET n == Len(view.receipts)
            sum == SumAmounts(view.receipts, DOMAIN view.receipts)
            m == view.analytics.monthly
            f == view.frequency
            avg == view.averagePurchase
        IN  /\ n = 0 =>
                   /\ avg = 0
                   /\ f = 0
                   /\ view.analytics.weekly = 0 /\ m = 0 /\ view.analytics.yearly = 0
                   /\ view.analytics.categoryTotals = <<>>
                   /\ view.analytics.merchantCounts = <<>>
            /\ n > 0 => 2 * n * avg - n <= 200 * sum /\ 200 * sum < 2 * n * avg + n
            /\ (n > 0 /\ sum > 0) => 2 * f * sum - sum <= 2 * m * n /\ 2 * m * n < 2 * f * sum + sum
            /\ (n = 0 \/ sum = 0) => f = 0

\* The render of three receipts of 10, 20 and 5 in the month: average 11.67,
\* three trips.
C18_Witness ==
    /\ view.rendered
    /\ Len(view.receipts) = 3
    /\ view.analytics.monthly = 35
    /\ view.averagePurchase = 1167
    /\ view.frequency = 3

\* C19: the budget alert is shown exactly when the monthly sum is strictly
\* greater than 500.
C19_BudgetAlert ==
    view.rendered =>
        (view.budgetAlert <=>
             SumAmounts(view.receipts, DatedWithin(view.receipts, renderNow, 30)) > 500)

\* A month's spending of exactly 500 shows no alert.
C19_Witness ==
    /\ view.rendered
    /\ view.analytics.monthly = 500
    /\ ~view.budgetAlert

\* C21: export succeeds for every record sequence, empty or not, and gives
\* three sheets: one row per record in store order, the Weekly, Monthly and
\* Yearly rows with their totals, and one row per category with its name and
\* total.
C21_ExportSucceeds ==
    [][workbook' # workbook =>
          /\ workbook'.status = "written"
          /\ Len(workbook'.Receipts) = Len(savedReceipts)
          /\ \A i \in DOMAIN savedReceipts :
                 /\ workbook'.Receipts[i].Date = savedReceipts[i].date
                 /\ workbook'.Receipts[i].Merchant = savedReceipts[i].merchantName
                 /\ workbook'.Receipts[i].Category = savedReceipts[i].category
                 /\ workbook'.Receipts[i].Amount = savedReceipts[i].totalAmount
          /\ \E t \in RenderTimes :
                 workbook'.Analytics =
                     <<[Period |-> "Weekly",
                        Total |-> SumAmounts(savedReceipts, DatedWithin(savedReceipts, t, 7))],
                       [Period |-> "Monthly",
                        Total |-> SumAmounts(savedReceipts, DatedWithin(savedReceipts, t, 30))],
                       [Period |-> "Yearly",
                        Total |-> SumAmounts(savedReceipts, DatedWithin(savedReceipts, t, 365))]>>
          /\ {workbook'.Categories[i].Category : i \in DOMAIN workbook'.Categories}
                 = CategoriesOf(savedReceipts)
          /\ Len(workbook'.Categories) = Cardinality(CategoriesOf(savedReceipts))
          /\ \A i \in DOMAIN workbook'.Categories :
                 workbook'.Categories[i].Total
                     = Num(CategorySum(savedReceipts, workbook'.Categories[i].Category))
    ]_vars

\* C22: an export, whether it writes the file or fails, leaves savedReceipts,
\* the persisted value, isLoading and error unchanged.
C22_ExportChangesNothing ==
    [][workbook' # workbook => UNCHANGED <<savedReceipts, storage, isLoading, error>>]_vars

\* An export has failed on a list appended in this session, and an upload is
\* in flight.
C22_Witness ==
    /\ workbook = ExportFailed
    /\ appendOrder # <<>>
    /\ isLoading
    /\ \E p \in Uploads : uploads[p].pc = "scan"

Longer(a, b) == IF a >= b THEN a ELSE b
Shorter(a, b) == IF a >= b THEN b ELSE a

\* C23: the output's longer edge is 1200 when the input's longer edge exceeds
\* 1200, with the shorter edge scaled by the same ratio to within one unit;
\* the output has the input's dimensions when both edges are at most 1200;
\* no edge is ever enlarged.
C23_NormalisedSize ==
    canvas.drawn =>
        LET w == canvas.img[1]
            h == canvas.img[2]
            long == Longer(w, h)
            short == Shorter(w, h)
            outShort == Shorter(canvas.width, canvas.height)
        IN  /\ long > 1200 =>
                   /\ Longer(canvas.width, canvas.height) = 1200
                   /\ (w >= h) => canvas.width = 1200
                   /\ (h >= w) => canvas.height = 1200
                   /\ outShort * long <= 1200 * short
                   /\ 1200 * short - outShort * long <= long
            /\ long <= 1200 => canvas.width = w /\ canvas.height = h
            /\ canvas.width <= w /\ canvas.height <= h

\* A 1800 x 2400 image drawn on a 900 x 1200 canvas.
C23_Witness ==
    /\ canvas.drawn
    /\ canvas.img = <<1800, 2400>>
    /\ canvas.width = 900
    /\ canvas.height = 1200

\* The uploads whose handleImageUpload has started and not ended.
InFlight == {p \in Uploads : uploads[p].pc \in {"optimize", "scan", "json", "stuck"}}

\* C24: isLoading is true in every state in which at least one upload is in
\* flight, overlapping uploads included.
C24_LoadingWhileInFlight == InFlight # {} => isLoading

\* C25: right after every append whose storage write succeeds the persisted
\* sequence equals savedReceipts, and a record that an earlier failed write
\* left only in memory is persisted by that append.
C25_SuccessfulWriteSyncs ==
    [][\A p \in Uploads :
           (uploads[p].pc = "json" /\ uploads'[p].pc = "done") =>
               /\ StoredList' = savedReceipts'
               /\ \A i \in DOMAIN savedReceipts :
                      (\A j \in DOMAIN StoredList : StoredList[j] # savedReceipts[i]) =>
                          \E j \in DOMAIN StoredList' : StoredList'[j] = savedReceipts[i]
    ]_vars

\* C26: receiptData is empty whenever no upload is in flight.
C26_SlotClearedAtRest == InFlight = {} => receiptData = <<>>

\* C27: when an upload ends and leaves none in flight, the error message is
\* set exactly when that upload failed.
C27_ErrorTracksLatestUpload ==
    [][\A p \in Uploads :
           /\ (uploads[p].pc # "done" /\ uploads'[p].pc = "done" /\ InFlight' = {})
                  => error' = NoError
           /\ (uploads[p].pc # "failed" /\ uploads'[p].pc = "failed" /\ InFlight' = {})
                  => error' # NoError
    ]_vars

====
